---- MODULE Spec2Model ----
(***************************************************************************)
(* Model of ghglance.py: discovery of GitHub checkouts under a directory,  *)
(* extraction of the (owner, repo) identity from the origin URL, the two   *)
(* fetch strategies (gh GraphQL client, paginated REST), the relative-time *)
(* formatter and the table renderer.                                       *)
(*                                                                         *)
(* Representation of Python values:                                        *)
(*   - a str that the program takes apart (remote URL, owner/repo) is a    *)
(*     sequence of one-character strings;                                  *)
(*   - a JSON object is a function whose DOMAIN is its set of keys, so a   *)
(*     missing key is a key outside the DOMAIN and a null value is PyNone; *)
(*   - an ISO timestamp string is IsoTime(date, ago): its text is          *)
(*     date "T" time, and it lies `ago` seconds before the run's "now";    *)
(*   - a call that can raise returns Ok(value) or Raise(exception class).  *)
(***************************************************************************)
EXTENDS Integers, Sequences, FiniteSets, TLC

VARIABLES
  pc,          \* position of main: "start", "loop", "render", "done", "aborted"
  use_gh,      \* gh_available(): the strategy chosen once per run
  root_ok,     \* root.is_dir()
  token,       \* whether GITHUB_TOKEN or GH_TOKEN is set
  queue,       \* sorted(repos), the list the for loop walks
  idx,         \* number of loop iterations completed
  results,     \* the accumulating list of records
  stderr,      \* lines printed to standard error
  stdout,      \* lines printed to standard output
  exit_code,   \* exit status of the process, -1 while it runs
  last,        \* the latest iteration: its path, the remote URL read by run_git
               \* and the answers its fetch got (Unset before the first)
  fetches,     \* per path: number of fetch attempts made
  outcome,     \* per path: "pending", "skipped", "failed", "ok", "crashed"
  remote_url,  \* input of a parse_github_owner_repo call
  owner_repo,  \* its return value
  iso_times,   \* inputs of two format_relative_time calls under one "now"
  labels,      \* their return values
  server,      \* the pages one github_get call is answered from
  page_result  \* its return value

vars == <<pc, use_gh, root_ok, token, queue, idx, results, stderr, stdout,
          exit_code, last, fetches, outcome, remote_url, owner_repo,
          iso_times, labels, server, page_result>>

mainVars == <<pc, use_gh, root_ok, token, queue, idx, results, stderr, stdout,
              exit_code, last, fetches, outcome>>
parseVars == <<remote_url, owner_repo>>
timeVars == <<iso_times, labels>>
pageVars == <<server, page_result>>

-----------------------------------------------------------------------------
(* Bounds of the model *)

MaxPathLen == 5     \* characters of the path part of an enumerated remote URL
MaxDays == 400      \* largest elapsed time enumerated, in days
MaxPages == 3       \* longest page chain enumerated
MaxPerPage == 2     \* most items on one page
NumRepos == 2       \* repositories under the root

-----------------------------------------------------------------------------
(* Python values *)

PyNone == [t |-> "None"]
PyInt(n) == [t |-> "int", v |-> n]
PyStr(s) == [t |-> "str", v |-> s]
Dict(f) == [t |-> "dict", v |-> f]
List(q) == [t |-> "list", v |-> q]
IsoTime(date, ago) == [t |-> "str", iso |-> TRUE, date |-> date, ago |-> ago]
BadTime == [t |-> "str", iso |-> FALSE, date |-> "soon", ago |-> 0]
EmptyStr == [t |-> "str", v |-> ""]

Ok(v) == [ok |-> TRUE, val |-> v]
Raise(e, msg) == [ok |-> FALSE, exc |-> e, msg |-> msg]

\* d.get(k, default)
Get(d, k, default) == IF k \in DOMAIN d THEN d[k] ELSE default

\* truthiness of None, "", a number, a dict or a list held in a JSON value
Truthy(x) ==
  CASE x.t = "None" -> FALSE
    [] x.t = "int" -> x.v # 0
    [] x.t = "str" -> x # EmptyStr
    [] x.t = "list" -> x.v # <<>>
    [] x.t = "dict" -> DOMAIN x.v # {}
    [] OTHER -> TRUE

-----------------------------------------------------------------------------
(* str operations on character sequences *)

StartsWith(s, p) == Len(s) >= Len(p) /\ SubSeq(s, 1, Len(p)) = p
EndsWith(s, p) == Len(s) >= Len(p) /\ SubSeq(s, Len(s) - Len(p) + 1, Len(s)) = p

\* s.find(sub) + 1, 0 when sub does not occur
Find(s, sub) ==
  LET hits == {i \in 1..(Len(s) - Len(sub) + 1) : SubSeq(s, i, i + Len(sub) - 1) = sub}
  IN IF hits = {} THEN 0 ELSE CHOOSE i \in hits : \A j \in hits : i <= j

Contains(s, sub) == Find(s, sub) # 0

\* s.split(sep, 1): the text before and after the first occurrence of sep
SplitOnce(s, sep) ==
  LET i == Find(s, sep)
  IN IF i = 0 THEN <<s>>
     ELSE <<SubSeq(s, 1, i - 1), SubSeq(s, i + Len(sep), Len(s))>>

\* s.strip("/")
StripSlashes(s) ==
  LET keep == {i \in 1..Len(s) : s[i] # "/"}
  IN IF keep = {} THEN <<>>
     ELSE SubSeq(s, CHOOSE i \in keep : \A j \in keep : i <= j,
                    CHOOSE i \in keep : \A j \in keep : i >= j)

GitAtGithub == <<"g","i","t","@","g","i","t","h","u","b",".","c","o","m",":">>
GithubSlash == <<"g","i","t","h","u","b",".","c","o","m","/">>
DotGit == <<".","g","i","t">>
Slash == <<"/">>
Colon == <<":">>

\* run_git returned None (git config exited non-zero)
NoUrl == <<"None">>

-----------------------------------------------------------------------------
(* parse_github_owner_repo *)

\* lines 44-52: the path cut out of the URL, or NoUrl when no rule applies
extract_path(url) ==
  LET raw == IF StartsWith(url, GitAtGithub) THEN SplitOnce(url, Colon)[2]
             ELSE IF Contains(url, GithubSlash) THEN SplitOnce(url, GithubSlash)[2]
             ELSE NoUrl
      stripped == StripSlashes(raw)
  IN IF raw = NoUrl THEN NoUrl
     ELSE IF EndsWith(stripped, DotGit) THEN SubSeq(stripped, 1, Len(stripped) - 4)
     ELSE stripped

\* the return value: <<>> for None, else the two-element list [owner, repo]
parse_github_owner_repo(url) ==
  IF url = NoUrl \/ url = <<>> THEN <<>>
  ELSE LET path == extract_path(url)
       IN IF path = NoUrl THEN <<>>
          ELSE IF ~Contains(path, Slash) THEN <<>>
          ELSE SplitOnce(path, Slash)

-----------------------------------------------------------------------------
(* format_relative_time *)

Label(n, unit) == [n |-> n, unit |-> unit]
Dash == [txt |-> "-"]

format_relative_time(iso_time) ==
  IF ~Truthy(iso_time) THEN Ok(Dash)
  ELSE IF ~iso_time.iso THEN Raise("ValueError", "Invalid isoformat string")
  ELSE
    LET seconds == iso_time.ago
        minutes == seconds \div 60
        hours == minutes \div 60
        days == hours \div 24
        weeks == days \div 7
        months == days \div 30
        years == days \div 365
    IN IF seconds < 60 THEN Ok(Label(1, "min"))
       ELSE IF minutes < 60 THEN Ok(Label(minutes, "min"))
       ELSE IF hours < 24 THEN Ok(Label(hours, "hr"))
       ELSE IF days < 7 THEN Ok(Label(days, IF days = 1 THEN "day" ELSE "days"))
       ELSE IF weeks < 5 THEN Ok(Label(weeks, "wk"))
       ELSE IF months < 12 THEN Ok(Label(months, "mo"))
       ELSE Ok(Label(years, "yr"))

-----------------------------------------------------------------------------
(* HTTP: what urlopen does for one request *)

\* a response to one request: kind is "ok" (2xx, body parsed by json.loads),
\* "http" (error.HTTPError with `code`), "urlerror" (error.URLError: no
\* connection) or "badjson" (2xx whose body is not JSON)
Response(kind, code, body, link) ==
  [kind |-> kind, code |-> code, body |-> body, link |-> link]

\* f"GitHub API error {exc.code}: {exc.reason}"
HttpMessage(code) == "GitHub API error " \o ToString(code)

LinkEntry(target, rel) == [target |-> target, rel |-> rel]

\* the pattern applied with match instead of search: only a header that
\* begins with the next link is recognised
LINK_NEXT_RE_match(link) ==
  IF Len(link) > 0 /\ link[1].rel = "next" THEN link[1].target ELSE 0

\* LINK_NEXT_RE.search(link): the first <target>; rel="next" of the header,
\* 0 when there is none
LINK_NEXT_RE(link) ==
  LET hits == {i \in 1..Len(link) : link[i].rel = "next"}
  IN IF hits = {} THEN 0
     ELSE link[CHOOSE i \in hits : \A j \in hits : i <= j].target

RECURSIVE get_loop(_, _, _, _)
get_loop(srv, url, items, requested) ==
  IF url = 0 THEN [ret |-> Ok(items), requested |-> requested]
  ELSE
    LET resp == srv[url]
        asked == Append(requested, url)
    IN CASE resp.kind = "http" ->
              [ret |-> Raise("RuntimeError", HttpMessage(resp.code)), requested |-> asked]
         [] resp.kind = "urlerror" ->
              [ret |-> Raise("URLError", "urlopen error"), requested |-> asked]
         [] resp.kind = "badjson" ->
              [ret |-> Raise("JSONDecodeError", "Expecting value"), requested |-> asked]
         [] OTHER ->
              get_loop(srv, LINK_NEXT_RE(resp.link), items \o resp.body, asked)

\* github_get against a server whose page k answers URL k; URL 1 is the
\* endpoint URL built from owner, repo, endpoint and params.  `requested` is
\* the sequence of URLs opened.
github_get_trace(srv) == get_loop(srv, 1, <<>>, <<>>)

\* github_get with HTTP errors swallowed: the listing is taken as empty
github_get_lenient(srv) ==
  IF ~github_get_trace(srv).ret.ok /\ github_get_trace(srv).ret.exc = "RuntimeError"
    THEN Ok(<<>>)
  ELSE github_get_trace(srv).ret

github_get(srv) == github_get_trace(srv).ret

\* github_get_json without the 404 exemption
github_get_json_strict(resp) ==
  CASE resp.kind = "http" -> Raise("RuntimeError", HttpMessage(resp.code))
    [] resp.kind = "urlerror" -> Raise("URLError", "urlopen error")
    [] resp.kind = "badjson" -> Raise("JSONDecodeError", "Expecting value")
    [] OTHER -> Ok(resp.body)

\* github_get_json: one request, 404 downgraded to None
github_get_json(resp) ==
  CASE resp.kind = "http" ->
         IF resp.code = 404 THEN Ok(PyNone)
         ELSE Raise("RuntimeError", HttpMessage(resp.code))
    [] resp.kind = "urlerror" -> Raise("URLError", "urlopen error")
    [] resp.kind = "badjson" -> Raise("JSONDecodeError", "Expecting value")
    [] OTHER -> Ok(resp.body)

-----------------------------------------------------------------------------
(* The two fetch strategies *)

Info(issues, prs, stars, tag, date, activity) ==
  [issues |-> issues, prs |-> prs, stars |-> stars,
   release_tag |-> tag, release_date |-> date, activity |-> activity]

NoRelease == PyStr("-")

\* x or "-"
OrDash(x) == IF Truthy(x) THEN x ELSE NoRelease

\* created_at.split("T", 1)[0]
DatePart(created_at) == PyStr(created_at.date)

\* lines 144-172, once repo_data is known to be a non-empty object
gh_fields(rd) ==
  IF "issues" \notin DOMAIN rd \/ "pullRequests" \notin DOMAIN rd
    THEN Raise("KeyError", "missing key")
  ELSE IF rd.issues.t # "dict" \/ rd.pullRequests.t # "dict"
    THEN Raise("TypeError", "NoneType is not subscriptable")
  ELSE IF "totalCount" \notin DOMAIN rd.issues.v
          \/ "totalCount" \notin DOMAIN rd.pullRequests.v
    THEN Raise("KeyError", "missing key")
  ELSE
    LET rel == Get(rd, "releases", Dict(<<>>))
    IN IF rel.t # "dict" THEN Raise("AttributeError", "NoneType has no attribute get")
       ELSE
         LET releases == Get(rel.v, "nodes", List(<<>>))
         IN IF Truthy(releases) /\ releases.v[1].t # "dict"
              THEN Raise("AttributeError", "NoneType has no attribute get")
            ELSE
              LET created_at == IF Truthy(releases)
                                THEN Get(releases.v[1].v, "createdAt", PyNone)
                                ELSE PyNone
                  release_tag == IF Truthy(releases)
                                 THEN OrDash(Get(releases.v[1].v, "tagName", PyNone))
                                 ELSE NoRelease
                  release_date == IF Truthy(created_at) THEN DatePart(created_at)
                                  ELSE NoRelease
                  branch == Get(rd, "defaultBranchRef", PyNone)
                  target == IF Truthy(branch) THEN Get(branch.v, "target", PyNone)
                            ELSE PyNone
                  typename == IF Truthy(target) THEN Get(target.v, "__typename", PyNone)
                              ELSE PyNone
                  tag_target == IF Truthy(target) /\ Truthy(Get(target.v, "target", PyNone))
                                THEN target.v.target ELSE Dict(<<>>)
                  committed_at ==
                    IF typename = PyStr("Commit") THEN Get(target.v, "committedDate", PyNone)
                    ELSE IF typename = PyStr("Tag") THEN Get(tag_target.v, "committedDate", PyNone)
                    ELSE PyNone
                  activity == format_relative_time(committed_at)
              IN IF ~activity.ok THEN activity
                 ELSE Ok(Info(rd.issues.v.totalCount, rd.pullRequests.v.totalCount,
                              Get(rd, "stargazerCount", PyInt(0)),
                              release_tag, release_date, activity.val))

\* the gh subprocess: exit status and standard output, which is empty
\* ("empty"), not JSON ("badjson") or a JSON object ("json", in doc)
Proc(returncode, kind, doc) == [returncode |-> returncode, kind |-> kind, doc |-> doc]

gh_graphql_repo_info(proc) ==
  IF proc.returncode # 0 THEN Raise("RuntimeError", "gh api failed")
  ELSE IF proc.kind = "empty" THEN Raise("RuntimeError", "gh api returned no output")
  ELSE IF proc.kind = "badjson" THEN Raise("JSONDecodeError", "Expecting value")
  ELSE
    LET data == Get(proc.doc, "data", Dict(<<>>))
    IN IF data.t # "dict" THEN Raise("AttributeError", "NoneType has no attribute get")
       ELSE
         LET repo_data == Get(data.v, "repository", PyNone)
         IN IF ~Truthy(repo_data)
              THEN Raise("RuntimeError", "repository not found or access denied")
            ELSE gh_fields(repo_data.v)

\* the responses the service gives to the four requests of one repository
RestEnv(issues, pulls, meta, release) ==
  [issues |-> issues, pulls |-> pulls, meta |-> meta, release |-> release]

\* [item for item in issues if "pull_request" not in item]
NotPullRequest(item) == "pull_request" \notin DOMAIN item

\* lines 287-315
rest_repo_info(env) ==
  LET issues == github_get(env.issues)
      prs == github_get(env.pulls)
      meta == github_get_json(env.meta)
      release == github_get_json(env.release)
  IN IF ~issues.ok THEN issues
     ELSE IF ~prs.ok THEN prs
     ELSE IF ~meta.ok THEN meta
     ELSE
       LET repo_info == IF Truthy(meta.val) THEN meta.val ELSE Dict(<<>>)
           stars == Get(repo_info.v, "stargazers_count", PyInt(0))
           pushed_at == Get(repo_info.v, "pushed_at", PyNone)
           activity == format_relative_time(pushed_at)
       IN IF ~activity.ok THEN activity
          ELSE IF ~release.ok THEN release
          ELSE
            LET created_at == IF Truthy(release.val)
                              THEN Get(release.val.v, "created_at", PyNone)
                              ELSE PyNone
                release_tag == IF Truthy(release.val)
                               THEN OrDash(Get(release.val.v, "tag_name", PyNone))
                               ELSE NoRelease
                release_date == IF Truthy(created_at) THEN DatePart(created_at)
                                ELSE NoRelease
            IN Ok(Info(PyInt(Len(SelectSeq(issues.val, NotPullRequest))),
                       PyInt(Len(prs.val)), stars, release_tag, release_date,
                       activity.val))

-----------------------------------------------------------------------------
(* What the outside world can answer *)

\* an entry of the issues listing; the even ones are pull requests
IssueItem(k, j) ==
  IF j % 2 = 0 THEN [id |-> <<k, j>>, pull_request |-> Dict(<<>>)]
  ELSE [id |-> <<k, j>>]

\* the Link header of page k of n: a bare next link, or the layout GitHub
\* sends (prev, next, last, first)
LinkHeader(k, n, layout) ==
  IF layout = "bare"
    THEN IF k < n THEN <<LinkEntry(k + 1, "next")>> ELSE <<>>
  ELSE (IF k > 1 THEN <<LinkEntry(k - 1, "prev")>> ELSE <<>>)
       \o (IF k < n THEN <<LinkEntry(k + 1, "next"), LinkEntry(n, "last")>> ELSE <<>>)
       \o (IF k > 1 THEN <<LinkEntry(1, "first")>> ELSE <<>>)

\* n pages linked by next relations, page k holding sizes[k] items
Chain(n, sizes, layout) ==
  [k \in 1..n |->
     Response("ok", 200, [j \in 1..sizes[k] |-> IssueItem(k, j)],
              LinkHeader(k, n, layout))]

Failure(kind, code) == Response(kind, code, <<>>, <<>>)

Failures == {Failure("http", 404), Failure("http", 500), Failure("urlerror", 0),
             Failure("badjson", 200)}

OkChains ==
  UNION {{Chain(n, sizes, layout) :
            sizes \in [1..n -> 0..MaxPerPage], layout \in {"bare", "github"}} :
         n \in 1..MaxPages}

\* a chain whose page f fails
BrokenChains ==
  UNION {{[c EXCEPT ![f] = x] : f \in 1..Len(c), x \in Failures} : c \in OkChains}

Servers == OkChains \union BrokenChains

\* origin URLs of the repositories under the root
Https == <<"h","t","t","p","s",":","/","/">>
SshUrl == GitAtGithub \o <<"a","/","b">> \o DotGit
ForeignUrl == Https \o <<"x",".","o","r","g","/","a","/","b">>
LookalikeUrl == Https \o <<"m","y">> \o GithubSlash \o <<"a","/","b">>

RemoteUrls == {NoUrl, SshUrl, ForeignUrl, LookalikeUrl}

Recent == IsoTime("2024-01-10", 7200)
Stale == IsoTime("2023-01-20", 360 * 86400)
Released == IsoTime("2024-01-15", 3 * 86400)

\* answers to the four REST requests
IssuesBase == Chain(1, <<2>>, "github")
PullsBase == Chain(1, <<1>>, "github")
MetaBase == Response("ok", 200,
                     Dict([stargazers_count |-> PyInt(42), pushed_at |-> Recent]), <<>>)
ReleaseBase == Response("ok", 200,
                        Dict([tag_name |-> PyStr("v1.2.0"), created_at |-> Released]), <<>>)

IssuesAnswers == {IssuesBase, Chain(2, <<1, 1>>, "github")}
                   \union {<<x>> : x \in Failures}
                   \union {[Chain(2, <<1, 1>>, "github") EXCEPT ![2] = Failure("http", 403)]}
PullsAnswers == {PullsBase, Chain(1, <<0>>, "bare")} \union {<<x>> : x \in Failures}
MetaAnswers ==
  {MetaBase,
   Response("ok", 200, Dict([stargazers_count |-> PyNone, pushed_at |-> Recent]), <<>>),
   Response("ok", 200, Dict([stargazers_count |-> PyInt(42), pushed_at |-> Stale]), <<>>),
   Response("ok", 200, Dict([stargazers_count |-> PyInt(42), pushed_at |-> BadTime]), <<>>),
   Response("ok", 200, Dict([id |-> PyInt(7)]), <<>>)}
  \union Failures
ReleaseAnswers ==
  {ReleaseBase,
   Response("ok", 200, Dict([tag_name |-> PyNone, created_at |-> Released]), <<>>),
   Response("ok", 200, Dict([tag_name |-> PyStr("v1.2.0"), created_at |-> PyNone]), <<>>)}
  \union Failures

\* the base answers with at most one request answered differently, and the
\* repository without a release under every answer to the other requests
RestEnvs ==
  {RestEnv(i, PullsBase, MetaBase, ReleaseBase) : i \in IssuesAnswers}
  \union {RestEnv(IssuesBase, q, MetaBase, ReleaseBase) : q \in PullsAnswers}
  \union {RestEnv(IssuesBase, PullsBase, m, ReleaseBase) : m \in MetaAnswers}
  \union {RestEnv(IssuesBase, PullsBase, MetaBase, r) : r \in ReleaseAnswers}
  \union {RestEnv(i, q, m, Failure("http", 404)) :
            i \in {IssuesBase, Chain(2, <<1, 1>>, "github")},
            q \in {PullsBase, Chain(1, <<0>>, "bare")},
            m \in MetaAnswers}

\* answers of the gh client
Count(n) == Dict([totalCount |-> n])
Node(tag, created) == Dict([tagName |-> tag, createdAt |-> created])
Commit(date) == Dict(("__typename" :> PyStr("Commit")) @@ [committedDate |-> date])
Tag(inner) == Dict(("__typename" :> PyStr("Tag")) @@ [target |-> inner])
Branch(target) == Dict([target |-> target])

RepoBase ==
  [stargazerCount |-> PyInt(42), issues |-> Count(PyInt(3)),
   pullRequests |-> Count(PyInt(1)),
   releases |-> Dict([nodes |-> List(<<Node(PyStr("v1.2.0"), Released)>>)]),
   defaultBranchRef |-> Branch(Commit(Recent))]

RepoShapes ==
  {RepoBase,
   [RepoBase EXCEPT !.stargazerCount = PyNone],
   [RepoBase EXCEPT !.issues = Count(PyNone)],
   [RepoBase EXCEPT !.issues = PyNone],
   [RepoBase EXCEPT !.pullRequests = Dict([nodes |-> List(<<>>)])],
   [RepoBase EXCEPT !.releases = Dict([nodes |-> List(<<>>)])],
   [RepoBase EXCEPT !.releases = Dict([nodes |-> PyNone])],
   [RepoBase EXCEPT !.releases = PyNone],
   [RepoBase EXCEPT !.releases = Dict([nodes |-> List(<<PyNone>>)])],
   [RepoBase EXCEPT !.releases = Dict([nodes |-> List(<<Node(PyNone, PyNone)>>)])],
   [RepoBase EXCEPT !.defaultBranchRef = PyNone],
   [RepoBase EXCEPT !.defaultBranchRef = Branch(Tag(Dict([committedDate |-> Stale])))],
   [RepoBase EXCEPT !.defaultBranchRef = Branch(Tag(PyNone))],
   [RepoBase EXCEPT !.defaultBranchRef = Branch(Commit(BadTime))],
   [k \in {"issues", "pullRequests"} |-> RepoBase[k]],
   [k \in {"stargazerCount", "pullRequests"} |-> RepoBase[k]]}

Doc(repository) == [data |-> Dict([repository |-> repository])]

GhProcs ==
  {Proc(0, "json", Doc(Dict(rd))) : rd \in RepoShapes}
  \union {Proc(0, "json", Doc(PyNone)), Proc(0, "json", [data |-> PyNone]),
          Proc(0, "json", [errors |-> List(<<>>)]),
          Proc(1, "empty", <<>>), Proc(0, "empty", <<>>), Proc(0, "badjson", <<>>)}

-----------------------------------------------------------------------------
(* main *)

Paths == 1..NumRepos

\* the list walked as find_repos yielded it
unsorted(paths) == paths

\* sorted(repos)
sorted(paths) == SortSeq(paths, LAMBDA a, b : a < b)

\* the dict appended to results (lines 320-331)
Record(repo_path, ident, info) ==
  [name |-> repo_path, repo |-> ident[1] \o Slash \o ident[2],
   issues |-> info.issues, prs |-> info.prs, stars |-> info.stars,
   release_tag |-> info.release_tag, release_date |-> info.release_date,
   activity |-> info.activity]

\* results.append(record)
append(list, record) == Append(list, record)

\* the answer sets of the strategy the run uses
Replies == IF use_gh THEN GhProcs ELSE RestEnvs

\* the outcome of each strategy on each answer, and of the parser on each
\* origin URL, tabulated once
GhOutcome == [reply \in GhProcs |-> gh_graphql_repo_info(reply)]
RestOutcome == [reply \in RestEnvs |-> rest_repo_info(reply)]
Identity == [url \in RemoteUrls |-> parse_github_owner_repo(url)]

\* lines 278-315: the fetch of one repository with the run's strategy
fetch(reply) == IF use_gh THEN GhOutcome[reply] ELSE RestOutcome[reply]

ErrLine(path, text) == [path |-> path, text |-> text]

Warning == ErrLine(0, "Warning: GITHUB_TOKEN/GH_TOKEN not set")

\* lines 243-247
warn(err) == IF ~use_gh /\ ~token THEN Append(err, Warning) ELSE err

\* a found list holds each path of the root once, in any order
Orders == {q \in UNION {[1..n -> Paths] : n \in 0..NumRepos} :
             \A i, j \in 1..Len(q) : i # j => q[i] # q[j]}

Unset == [unset |-> TRUE]

Latest(path, url, reply) == [path |-> path, url |-> url, reply |-> reply]

\* lines 236-239
RootNotFound ==
  /\ pc = "start" /\ ~root_ok
  /\ stderr' = Append(stderr, ErrLine(0, "Root directory not found"))
  /\ exit_code' = 1
  /\ pc' = "done"
  /\ UNCHANGED <<use_gh, root_ok, token, queue, idx, results, stdout,
                 last, fetches, outcome, parseVars, timeVars, pageVars>>

\* lines 241-252 when find_repos yields nothing
NoRepos ==
  /\ pc = "start" /\ root_ok
  /\ stderr' = warn(stderr)
  /\ stdout' = Append(stdout, [kind |-> "message"])
  /\ exit_code' = 0
  /\ pc' = "done"
  /\ UNCHANGED <<use_gh, root_ok, token, queue, idx, results,
                 last, fetches, outcome, parseVars, timeVars, pageVars>>

\* lines 241-270 up to the first iteration; repos is the list find_repos
\* yields, in the order of the directory walk
Scan ==
  /\ pc = "start" /\ root_ok
  /\ \E repos \in Orders : repos # <<>> /\ queue' = sorted(repos)
  /\ stderr' = warn(stderr)
  /\ pc' = "loop"
  /\ UNCHANGED <<use_gh, root_ok, token, idx, results, stdout, exit_code,
                 last, fetches, outcome, parseVars, timeVars, pageVars>>

\* lines 271-274: an iteration that finds no identity
SkipRepo ==
  /\ pc = "loop" /\ idx < Len(queue)
  /\ \E url \in RemoteUrls :
       /\ Identity[url] = <<>>
       /\ last' = Latest(queue[idx + 1], url, Unset)
       /\ outcome' = [outcome EXCEPT ![queue[idx + 1]] = "skipped"]
  /\ idx' = idx + 1
  /\ UNCHANGED <<pc, use_gh, root_ok, token, queue, results, stderr, stdout,
                 exit_code, fetches, parseVars, timeVars, pageVars>>

\* lines 271-331: an iteration whose fetch returns
FetchOk ==
  /\ pc = "loop" /\ idx < Len(queue)
  /\ \E url \in RemoteUrls, reply \in Replies :
       LET repo_path == queue[idx + 1]
           ident == Identity[url]
           r == fetch(reply)
       IN /\ ident # <<>>
          /\ r.ok
          /\ last' = Latest(repo_path, url, reply)
          /\ fetches' = [fetches EXCEPT ![repo_path] = @ + 1]
          /\ outcome' = [outcome EXCEPT ![repo_path] = "ok"]
          /\ results' = append(results, Record(repo_path, ident, r.val))
  /\ idx' = idx + 1
  /\ UNCHANGED <<pc, use_gh, root_ok, token, queue, stderr, stdout,
                 exit_code, parseVars, timeVars, pageVars>>

\* lines 271-318: an iteration whose fetch raises RuntimeError
FetchFailed ==
  /\ pc = "loop" /\ idx < Len(queue)
  /\ \E url \in RemoteUrls, reply \in Replies :
       LET repo_path == queue[idx + 1]
           ident == Identity[url]
           r == fetch(reply)
       IN /\ ident # <<>>
          /\ ~r.ok /\ r.exc = "RuntimeError"
          /\ last' = Latest(repo_path, url, reply)
          /\ fetches' = [fetches EXCEPT ![repo_path] = @ + 1]
          /\ outcome' = [outcome EXCEPT ![repo_path] = "failed"]
          /\ stderr' = Append(stderr, ErrLine(repo_path, r.msg))
  /\ idx' = idx + 1
  /\ UNCHANGED <<pc, use_gh, root_ok, token, queue, results, stdout,
                 exit_code, parseVars, timeVars, pageVars>>

\* lines 271-315: an iteration whose fetch raises an exception that the
\* except clause of line 316 does not name; the interpreter prints the
\* traceback and exits with status 1
FetchCrashed ==
  /\ pc = "loop" /\ idx < Len(queue)
  /\ \E url \in RemoteUrls, reply \in Replies :
       LET repo_path == queue[idx + 1]
           ident == Identity[url]
           r == fetch(reply)
       IN /\ ident # <<>>
          /\ ~r.ok /\ r.exc # "RuntimeError"
          /\ last' = Latest(repo_path, url, reply)
          /\ fetches' = [fetches EXCEPT ![repo_path] = @ + 1]
          /\ outcome' = [outcome EXCEPT ![repo_path] = "crashed"]
          /\ stderr' = Append(stderr, ErrLine(repo_path, "Traceback: " \o r.exc))
  /\ pc' = "aborted"
  /\ exit_code' = 1
  /\ UNCHANGED <<use_gh, root_ok, token, queue, idx, results, stdout,
                 parseVars, timeVars, pageVars>>

\* lines 333-334
NoResults ==
  /\ pc = "loop" /\ idx = Len(queue) /\ results = <<>>
  /\ pc' = "done"
  /\ exit_code' = 0
  /\ UNCHANGED <<use_gh, root_ok, token, queue, idx, results, stderr, stdout,
                 last, fetches, outcome, parseVars, timeVars, pageVars>>

\* str(x) of a count
Str(x) == IF x.t = "int" THEN ToString(x.v) ELSE "None"

\* item[...] > 0 raises TypeError on None (lines 365-367)
Comparable(item) ==
  item.issues.t = "int" /\ item.prs.t = "int" /\ item.stars.t = "int"

\* the cells of one printed row in column order; padding and colour codes
\* are left out
Row(item) ==
  [kind |-> "row",
   cells |-> <<item.activity, Str(item.issues), Str(item.prs), Str(item.stars),
               item.release_tag.v, item.release_date.v, item.repo>>]

Header == [kind |-> "header"]

\* the rows printed by the loop of lines 357-378: all of them, or those
\* before the first item whose comparison raises
printed(items) ==
  LET bad == {i \in 1..Len(items) : ~Comparable(items[i])}
      n == IF bad = {} THEN Len(items)
           ELSE (CHOOSE i \in bad : \A j \in bad : i <= j) - 1
  IN [i \in 1..n |-> Row(items[i])]

\* lines 336-380
Render ==
  /\ pc = "loop" /\ idx = Len(queue) /\ results # <<>>
  /\ stdout' = stdout \o <<Header>> \o printed(results)
  /\ IF \A i \in 1..Len(results) : Comparable(results[i])
       THEN pc' = "done" /\ exit_code' = 0 /\ stderr' = stderr
       ELSE /\ pc' = "aborted"
            /\ exit_code' = 1
            /\ stderr' = Append(stderr, ErrLine(0, "Traceback: TypeError"))
  /\ UNCHANGED <<use_gh, root_ok, token, queue, idx, results,
                 last, fetches, outcome, parseVars, timeVars, pageVars>>

MainInit ==
  /\ pc = "start"
  /\ use_gh \in BOOLEAN
  /\ root_ok \in BOOLEAN
  /\ token \in BOOLEAN
  /\ queue = <<>>
  /\ idx = 0
  /\ results = <<>>
  /\ stderr = <<>>
  /\ stdout = <<>>
  /\ exit_code = -1
  /\ last = Unset
  /\ fetches = [p \in Paths |-> 0]
  /\ outcome = [p \in Paths |-> "pending"]

Idle ==
  /\ remote_url = <<>> /\ owner_repo = Unset
  /\ iso_times = <<>> /\ labels = Unset
  /\ server = <<>> /\ page_result = Unset

Init == MainInit /\ Idle

Next ==
  \/ RootNotFound
  \/ NoRepos
  \/ Scan
  \/ SkipRepo
  \/ FetchOk
  \/ FetchFailed
  \/ FetchCrashed
  \/ NoResults
  \/ Render

Spec == Init /\ [][Next]_vars

-----------------------------------------------------------------------------
(* Calls of the pure functions on enumerated inputs *)

MainOff ==
  /\ pc = "off" /\ use_gh = FALSE /\ root_ok = TRUE /\ token = FALSE
  /\ queue = <<>> /\ idx = 0 /\ results = <<>>
  /\ stderr = <<>> /\ stdout = <<>> /\ exit_code = -1
  /\ last = Unset
  /\ fetches = [p \in Paths |-> 0]
  /\ outcome = [p \in Paths |-> "pending"]

\* remote URLs: a prefix naming a host, a path over "a" and "/", and
\* optionally ".git"
XOrg == <<"x",".","o","r","g">>
UrlPrefixes ==
  {GitAtGithub,
   Https \o GithubSlash,
   Https \o XOrg \o Slash,
   Https \o <<"m","y">> \o GithubSlash,
   Https \o XOrg \o Slash \o GithubSlash,
   <<"g","i","t","@">> \o XOrg \o Colon,
   Https \o <<"g","i","t","h","u","b",".","c","o","m",".">> \o XOrg \o Slash}

PathBodies == UNION {[1..n -> {"a", "/"}] : n \in 0..MaxPathLen}

UrlInputs ==
  {pre \o body \o suffix :
     pre \in UrlPrefixes, body \in PathBodies, suffix \in {<<>>, DotGit}}
  \union {NoUrl, <<>>}

ParseInit ==
  /\ MainOff
  /\ remote_url \in UrlInputs /\ owner_repo = Unset
  /\ iso_times = <<>> /\ labels = Unset
  /\ server = <<>> /\ page_result = Unset

Parse ==
  /\ owner_repo = Unset
  /\ owner_repo' = [ret |-> parse_github_owner_repo(remote_url)]
  /\ UNCHANGED <<mainVars, remote_url, timeVars, pageVars>>

SpecParse == ParseInit /\ [][Parse]_vars

\* elapsed times around every bucket edge, and a second one a gap later
Day == 24 * 3600
ElapsedSamples ==
  (-2..120)
  \union {h * 3600 + o : h \in 1..48, o \in {-1, 0}}
  \union {d * Day + o : d \in 0..MaxDays, o \in {0, Day - 1}}
Gaps == {1, 60, 3600, Day, 7 * Day}

TimeInputs ==
  {<<IsoTime("d", e), IsoTime("d", e + g)>> : e \in ElapsedSamples, g \in Gaps}
  \union {<<PyNone, EmptyStr>>, <<BadTime, PyNone>>}

TimeInit ==
  /\ MainOff
  /\ remote_url = <<>> /\ owner_repo = Unset
  /\ iso_times \in TimeInputs /\ labels = Unset
  /\ server = <<>> /\ page_result = Unset

FormatTimes ==
  /\ labels = Unset
  /\ labels' = [ret |-> <<format_relative_time(iso_times[1]),
                          format_relative_time(iso_times[2])>>]
  /\ UNCHANGED <<mainVars, parseVars, iso_times, pageVars>>

SpecTime == TimeInit /\ [][FormatTimes]_vars

PageInit ==
  /\ MainOff
  /\ remote_url = <<>> /\ owner_repo = Unset
  /\ iso_times = <<>> /\ labels = Unset
  /\ server \in Servers /\ page_result = Unset

GithubGet ==
  /\ page_result = Unset
  /\ page_result' = github_get_trace(server)
  /\ UNCHANGED <<mainVars, parseVars, timeVars, server>>

SpecPage == PageInit /\ [][GithubGet]_vars

-----------------------------------------------------------------------------
(* Properties of main *)

RecordsOf(p) == {i \in 1..Len(results) : results[i].name = p}
Logged(p) == \E i \in 1..Len(stderr) : stderr[i].path = p
Rows == SelectSeq(stdout, LAMBDA line : line.kind = "row")
Fetched == last # Unset /\ last.reply # Unset

\* an HTTP error status answers a request of the listing
HttpErrorIn(srv) == \E k \in 1..Len(srv) : srv[k].kind = "http"
AllPagesOk(srv) == \A k \in 1..Len(srv) : srv[k].kind = "ok"
WellFormed(resp) ==
  /\ resp.kind = "ok"
  /\ Get(resp.body.v, "pushed_at", PyNone) # BadTime

\* C1 (as claimed): every repository whose fetch failed, in whatever way,
\* was only skipped: the loop has moved past it, and once the run has ended
\* the records collected are all on standard output.
C1_FailureOnlySkips ==
  /\ \A i \in 1..Len(queue) :
       (fetches[queue[i]] > 0 /\ outcome[queue[i]] # "ok") => idx >= i
  /\ (pc \in {"done", "aborted"} /\ \A i \in 1..Len(results) : Comparable(results[i]))
       => Len(Rows) = Len(results)

\* C2: results lists, in ascending path order, exactly the repositories
\* processed so far whose fetch succeeded, one record each; no repository is
\* fetched twice, a record exists only for a repository with an identity and
\* one completed fetch, and the printed rows follow the order of results.
C2_ResultsFollowSortedPaths ==
  /\ \A i, j \in 1..Len(queue) : i < j => queue[i] < queue[j]
  /\ [i \in 1..Len(results) |-> results[i].name]
       = SelectSeq(SubSeq(queue, 1, idx), LAMBDA p : outcome[p] = "ok")
  /\ \A p \in Paths :
       /\ fetches[p] <= 1
       /\ Cardinality(RecordsOf(p)) <= 1
       /\ outcome[p] = "ok" => fetches[p] = 1
  /\ (last # Unset /\ outcome[last.path] = "ok")
       => /\ parse_github_owner_repo(last.url) # <<>>
          /\ fetch(last.reply).ok
          /\ results[Len(results)].name = last.path
  /\ Len(Rows) <= Len(results)
  /\ \A i \in 1..Len(Rows) : Rows[i] = Row(results[i])
  /\ (pc = "done" /\ exit_code = 0 /\ results # <<>>) => Len(Rows) = Len(results)

C2_Witness ==
  /\ pc = "done" /\ Len(queue) = NumRepos
  /\ Len(results) = NumRepos - 1 /\ Len(Rows) = NumRepos - 1
  /\ outcome[1] = "failed" /\ outcome[NumRepos] = "ok"

\* the host a remote URL names: the authority of scheme://[user@]host/path,
\* or the host of user@host:path
HostOf(url) ==
  LET authority == SplitOnce(SplitOnce(url, <<":", "/", "/">>)[2], Slash)[1]
  IN IF Contains(url, <<":", "/", "/">>)
       THEN IF Contains(authority, <<"@">>) THEN SplitOnce(authority, <<"@">>)[2]
            ELSE authority
     ELSE IF Contains(url, <<"@">>) /\ Contains(url, Colon)
       THEN SplitOnce(SplitOnce(url, <<"@">>)[2], Colon)[1]
     ELSE <<>>

GithubHost == <<"g","i","t","h","u","b",".","c","o","m">>

\* C4 (as claimed): a repository whose origin names another host than
\* github.com is never fetched, gets no record and no error line.
C4_OtherHostIgnored ==
  (last # Unset /\ last.url # NoUrl /\ HostOf(last.url) # GithubHost)
    => /\ fetches[last.path] = 0
       /\ RecordsOf(last.path) = {}
       /\ ~Logged(last.path)

\* the number of entries of a listing that carry no pull_request key
PlainItems(srv) ==
  Cardinality(UNION {{<<k, j>> : j \in {j \in 1..Len(srv[k].body) :
                                        "pull_request" \notin DOMAIN srv[k].body[j]}} :
                     k \in 1..Len(srv)})
AllItems(srv) ==
  Cardinality(UNION {{<<k, j>> : j \in 1..Len(srv[k].body)} : k \in 1..Len(srv)})

ReleaseAloneNotFound(env) ==
  /\ AllPagesOk(env.issues) /\ AllPagesOk(env.pulls)
  /\ WellFormed(env.meta)
  /\ env.release.kind = "http" /\ env.release.code = 404

\* C6: in the REST strategy, when the issues, pulls and metadata requests
\* succeed and the release request alone answers 404, a record is appended
\* whose counts, stars and activity come from the three answers and whose
\* release tag and date are both the "-" sentinel.
C6_ReleaseNotFoundStillRecorded ==
  (~use_gh /\ Fetched /\ ReleaseAloneNotFound(last.reply))
    => /\ outcome[last.path] = "ok"
       /\ results # <<>>
       /\ LET rec == results[Len(results)]
              env == last.reply
          IN /\ rec.name = last.path
             /\ rec.release_tag = NoRelease /\ rec.release_date = NoRelease
             /\ rec.issues = PyInt(PlainItems(env.issues))
             /\ rec.prs = PyInt(AllItems(env.pulls))
             /\ rec.stars = Get(env.meta.body.v, "stargazers_count", PyInt(0))
             /\ rec.activity
                  = format_relative_time(Get(env.meta.body.v, "pushed_at", PyNone)).val

C6_Witness ==
  /\ pc = "done" /\ ~use_gh /\ Fetched
  /\ ReleaseAloneNotFound(last.reply)
  /\ Len(last.reply.issues) = 2
  /\ results[Len(results)].stars = PyInt(42)
  /\ results[Len(results)].release_tag = NoRelease
  /\ Len(Rows) = Len(results)

IsCount(x) == x.t = "int" /\ x.v >= 0
IsText(x) == x.t = "str" /\ x # EmptyStr
IsActivity(x) == x = Dash \/ (DOMAIN x = {"n", "unit"} /\ x.n \in Nat)

\* C8 (as claimed): every record of results has its counts as non-negative
\* integers, its release tag and date as text (a value or the sentinel) and
\* its activity as a relative-time label or "-"; no field is null.
C8_RecordsFullyPopulated ==
  \A i \in 1..Len(results) :
    /\ IsCount(results[i].issues) /\ IsCount(results[i].prs) /\ IsCount(results[i].stars)
    /\ IsText(results[i].release_tag) /\ IsText(results[i].release_date)
    /\ IsActivity(results[i].activity)

\* C9 (as claimed): in the REST strategy an HTTP error status, 404 included,
\* on the issues, pulls or metadata request fails the fetch: an error is
\* logged and no record is appended.
C9_Only404OnReleaseTolerated ==
  (~use_gh /\ Fetched
     /\ (HttpErrorIn(last.reply.issues) \/ HttpErrorIn(last.reply.pulls)
           \/ last.reply.meta.kind = "http"))
    => /\ outcome[last.path] # "ok"
       /\ RecordsOf(last.path) = {}

Not404(resp) == resp.kind = "http" /\ resp.code # 404

\* the first request of the fetch that does not get a 2xx JSON answer is
\* answered with an HTTP error status that github_get / github_get_json raise
FirstFailureRaises(env) ==
  \/ HttpErrorIn(env.issues) /\ \A k \in 1..Len(env.issues) :
        env.issues[k].kind \in {"ok", "http"}
  \/ AllPagesOk(env.issues) /\ HttpErrorIn(env.pulls)
        /\ \A k \in 1..Len(env.pulls) : env.pulls[k].kind \in {"ok", "http"}
  \/ AllPagesOk(env.issues) /\ AllPagesOk(env.pulls) /\ Not404(env.meta)
  \/ AllPagesOk(env.issues) /\ AllPagesOk(env.pulls)
        /\ (WellFormed(env.meta) \/ (env.meta.kind = "http" /\ env.meta.code = 404))
        /\ Not404(env.release)

\* C9 (amended): 404 is tolerated on both requests made through
\* github_get_json, the metadata request as well as the release request.  An
\* HTTP error of any status on the issues or pulls listing, or of a status
\* other than 404 on the metadata or release request, leaves the repository
\* without a record, and when it is the first failure of the fetch it is
\* logged and the loop goes on.  A 404 on the metadata request alone gives a
\* record with 0 stars and activity "-".
C9_NotFoundToleratedOnJsonRequests ==
  (~use_gh /\ Fetched) =>
    LET env == last.reply
        p == last.path
    IN /\ (HttpErrorIn(env.issues) \/ HttpErrorIn(env.pulls)
             \/ Not404(env.meta) \/ Not404(env.release))
            => (outcome[p] # "ok" /\ RecordsOf(p) = {})
       /\ FirstFailureRaises(env)
            => (outcome[p] = "failed" /\ Logged(p) /\ idx > 0 /\ queue[idx] = p)
       /\ (AllPagesOk(env.issues) /\ AllPagesOk(env.pulls)
             /\ env.meta.kind = "http" /\ env.meta.code = 404
             /\ (env.release.kind = "ok" \/ env.release = Failure("http", 404)))
            => /\ outcome[p] = "ok"
               /\ results[Len(results)].name = p
               /\ results[Len(results)].stars = PyInt(0)
               /\ results[Len(results)].activity = Dash

C9_Witness ==
  /\ pc = "done" /\ ~use_gh /\ Fetched
  /\ last.reply.meta = Failure("http", 404)
  /\ last.reply.release.kind = "ok"
  /\ outcome[last.path] = "ok"
  /\ results[Len(results)].stars = PyInt(0)
  /\ \E i \in 1..Len(stderr) : stderr[i].text = HttpMessage(404)

-----------------------------------------------------------------------------
(* Properties of parse_github_owner_repo *)

\* s.split("/"): all the segments of s
RECURSIVE Segments(_)
Segments(s) ==
  IF ~Contains(s, Slash) THEN <<s>>
  ELSE <<SplitOnce(s, Slash)[1]>> \o Segments(SplitOnce(s, Slash)[2])

TwoSegments(path) ==
  /\ path # NoUrl
  /\ Len(Segments(path)) = 2
  /\ \A i \in 1..2 : Segments(path)[i] # <<>>

\* C3 (as claimed): an identity is returned only for an extracted path of
\* exactly two non-empty segments, and it is those two segments; every other
\* path gives None.
C3_ExactlyTwoSegments ==
  owner_repo # Unset =>
    IF TwoSegments(extract_path(remote_url))
      THEN owner_repo.ret # <<>> => owner_repo.ret = Segments(extract_path(remote_url))
      ELSE owner_repo.ret = <<>>

-----------------------------------------------------------------------------
(* Properties of github_get *)

RECURSIVE Concat(_, _)
Concat(srv, k) == IF k > Len(srv) THEN <<>> ELSE srv[k].body \o Concat(srv, k + 1)

\* C5: when every page of a chain of n >= 1 pages answers, github_get opens
\* URL 1, 2, ..., n once each in that order and returns the items of all
\* pages concatenated in page order, none twice and none missing.
C5_PaginationMerge ==
  (page_result # Unset /\ AllPagesOk(server)) =>
    /\ page_result.ret.ok
    /\ page_result.requested = [k \in 1..Len(server) |-> k]
    /\ page_result.ret.val = Concat(server, 1)
    /\ \A i, j \in 1..Len(page_result.ret.val) :
         i # j => page_result.ret.val[i] # page_result.ret.val[j]

C5_Witness ==
  /\ page_result # Unset /\ AllPagesOk(server)
  /\ Len(server) = MaxPages
  /\ server[2].link[1].rel = "prev"
  /\ \A k \in 1..MaxPages : Len(server[k].body) = MaxPerPage
  /\ Len(page_result.ret.val) = MaxPages * MaxPerPage

-----------------------------------------------------------------------------
(* Properties of format_relative_time *)

UnitSeconds(unit) ==
  CASE unit = "min" -> 60
    [] unit = "hr" -> 3600
    [] unit \in {"day", "days"} -> Day
    [] unit = "wk" -> 7 * Day
    [] unit = "mo" -> 30 * Day
    [] unit = "yr" -> 365 * Day

\* the duration a label "N unit ago" denotes
Denoted(label) == label.n * UnitSeconds(label.unit)

Formatted ==
  /\ labels # Unset
  /\ iso_times[1] # PyNone /\ iso_times[1].iso /\ iso_times[1].ago >= 0
  /\ iso_times[2] # PyNone /\ iso_times[2].iso

\* C7 (as claimed): of two elapsed times 0 <= e1 < e2 under one "now", the
\* label of e2 never denotes a shorter duration than the label of e1.
C7_Monotonic ==
  (Formatted /\ iso_times[1].ago < iso_times[2].ago)
    => Denoted(labels.ret[1].val) <= Denoted(labels.ret[2].val)

\* the unit of the bucket an elapsed time falls in
BucketUnits(e) ==
  IF e < 3600 THEN {"min"}
  ELSE IF e < Day THEN {"hr"}
  ELSE IF e < 7 * Day THEN {"day", "days"}
  ELSE IF e < 5 * 7 * Day THEN {"wk"}
  ELSE IF e < 12 * 30 * Day THEN {"mo"}
  ELSE {"yr"}

\* C10 (as claimed): every elapsed time >= 0 is formatted with a count of at
\* least 1 and the unit of its bucket.
C10_CountAtLeastOne ==
  Formatted =>
    /\ labels.ret[1].ok
    /\ labels.ret[1].val.n >= 1
    /\ labels.ret[1].val.unit \in BucketUnits(iso_times[1].ago)

====
